---- MODULE Spec2Model ----
(***************************************************************************)
(* Model of model_card_toolkit/utils/tfx_util.py: read-only queries over   *)
(* an ML-Metadata store (types, artifacts, executions, events), the        *)
(* model-card fragment they populate, and the metric annotator.            *)
(***************************************************************************)
EXTENDS Integers, Sequences, FiniteSets, TLC

VARIABLES
  artifact_types,       \* store: set of [name, id] artifact type records
  execution_types,      \* store: set of [name, id] execution type records
  artifacts,            \* store: function id -> [id, type_id, uri]
  executions,           \* store: function id -> [id, type_id, properties, custom_properties]
  events,               \* store: set of [artifact_id, execution_id, type]
  call,                 \* the last call: [op, model_id, pipeline_types]
  result,               \* its outcome: [status, missing, artifacts, card, queries]
  performance_metrics,  \* model_card.quantitative_analysis.performance_metrics
  annotation            \* the last annotate call: [status, before, eval_result]

storeVars == <<artifact_types, execution_types, artifacts, executions, events>>
cardVars == <<performance_metrics, annotation>>
vars == <<artifact_types, execution_types, artifacts, executions, events,
          call, result, performance_metrics, annotation>>

None == "None"

-----------------------------------------------------------------------------
(* Type names.                                                             *)

_TFX_DATASET_TYPE == "Examples"
_TFX_STATS_TYPE == "ExampleStatistics"
_TFX_MODEL_TYPE == "Model"
_TFX_METRICS_TYPE == "ModelEvaluation"
_TFX_TRAINER_TYPE == "tfx.components.trainer.component.Trainer"

\* Type names a store may register besides the required ones.
OtherArtifactType == "Schema"
OtherExecutionType == "tfx.components.transform.component.Transform"

expected_artifact_types ==
  {_TFX_DATASET_TYPE, _TFX_STATS_TYPE, _TFX_MODEL_TYPE, _TFX_METRICS_TYPE}
expected_execution_types == {_TFX_TRAINER_TYPE}
RequiredTypeNames == expected_artifact_types \cup expected_execution_types

\* The store gives every registered type its own id; artifact and execution
\* types share one id space.
TypeNameSeq ==
  <<_TFX_DATASET_TYPE, _TFX_STATS_TYPE, _TFX_MODEL_TYPE, _TFX_METRICS_TYPE,
    _TFX_TRAINER_TYPE, OtherArtifactType, OtherExecutionType>>
NameIndex(name) == CHOOSE i \in 1..Len(TypeNameSeq) : TypeNameSeq[i] = name
ArtifactType(name) == [name |-> name, id |-> NameIndex(name)]
ExecutionType(name) == [name |-> name, id |-> Len(TypeNameSeq) + NameIndex(name)]

-----------------------------------------------------------------------------
(* Event types of the store.                                               *)

DECLARED_OUTPUT == "DECLARED_OUTPUT"
DECLARED_INPUT == "DECLARED_INPUT"
INPUT == "INPUT"
OUTPUT == "OUTPUT"
INTERNAL_INPUT == "INTERNAL_INPUT"
INTERNAL_OUTPUT == "INTERNAL_OUTPUT"
EventTypes ==
  {DECLARED_OUTPUT, DECLARED_INPUT, INPUT, OUTPUT, INTERNAL_INPUT, INTERNAL_OUTPUT}

ANCESTOR == "ANCESTOR"
SUCCESSOR == "SUCCESSOR"

-----------------------------------------------------------------------------
(* Optional values: <<>> is None, <<x>> is x.                              *)

IsNone(opt) == opt = <<>>
Some(x) == <<x>>
Get(opt) == opt[1]

\* A Python scalar or None, as a model-card field or a property value holds it.
PyNone == [kind |-> "NoneType", i |-> 0, s |-> ""]
PyInt(n) == [kind |-> "int", i |-> n, s |-> ""]
PyFloat(n) == [kind |-> "float", i |-> n, s |-> ""]
PyStr(t) == [kind |-> "str", i |-> 0, s |-> t]

RECURSIVE SetToSeq(_)
\* The ids of S in ascending order, the order in which the store lists rows.
SetToSeq(S) ==
  IF S = {} THEN <<>>
  ELSE LET m == CHOOSE x \in S : \A y \in S : x <= y
       IN <<m>> \o SetToSeq(S \ {m})

Range(seq) == {seq[i] : i \in 1..Len(seq)}

-----------------------------------------------------------------------------
(* The store's query surface.  Each query is a read of the store.          *)

store_get_artifact_types == artifact_types
store_get_execution_types == execution_types

store_get_artifacts_by_id(ids) ==
  LET found == SetToSeq(ids \cap DOMAIN artifacts)
  IN [i \in 1..Len(found) |-> artifacts[found[i]]]

store_get_executions_by_id(ids) ==
  LET found == SetToSeq(ids \cap DOMAIN executions)
  IN [i \in 1..Len(found) |-> executions[found[i]]]

store_get_events_by_artifact_ids(ids) ==
  {event \in events : event.artifact_id \in ids}

store_get_events_by_execution_ids(ids) ==
  {event \in events : event.execution_id \in ids}

-----------------------------------------------------------------------------
(* _get_tfx_pipeline_types                                                 *)

TypeByName(types, name) == CHOOSE t \in types : t.name = name

PipelineTypes(dataset_type, stats_type, model_type, metrics_type, trainer_type) ==
  [dataset_type |-> dataset_type, stats_type |-> stats_type,
   model_type |-> model_type, metrics_type |-> metrics_type,
   trainer_type |-> trainer_type]

\* Faulty variant: only the artifact types are checked; a store without the trainer
\* execution type passes.
ArtifactTypesOnly_get_tfx_pipeline_types ==
  LET artifact_names == {atype.name : atype \in store_get_artifact_types}
      missing_artifact_types == expected_artifact_types \ artifact_names
      trainer_types == {t \in execution_types : t.name = _TFX_TRAINER_TYPE}
  IN IF missing_artifact_types # {}
     THEN [ok |-> FALSE, missing |-> missing_artifact_types, types |-> <<>>,
           queries |-> <<"get_artifact_types">>]
     ELSE [ok |-> TRUE, missing |-> {},
           types |-> Some(PipelineTypes(
              TypeByName(artifact_types, _TFX_DATASET_TYPE),
              TypeByName(artifact_types, _TFX_STATS_TYPE),
              TypeByName(artifact_types, _TFX_MODEL_TYPE),
              TypeByName(artifact_types, _TFX_METRICS_TYPE),
              IF trainer_types = {} THEN [name |-> _TFX_TRAINER_TYPE, id |-> 0]
              ELSE TypeByName(execution_types, _TFX_TRAINER_TYPE))),
           queries |-> <<"get_artifact_types", "get_execution_types">>]

\* Faulty variant: both catalogues are read first and every missing name is reported
\* in one error.
AllAtOnce_get_tfx_pipeline_types ==
  LET artifact_names == {atype.name : atype \in store_get_artifact_types}
      execution_names == {etype.name : etype \in store_get_execution_types}
      missing_types == (expected_artifact_types \ artifact_names)
                         \cup (expected_execution_types \ execution_names)
  IN IF missing_types # {}
     THEN [ok |-> FALSE, missing |-> missing_types, types |-> <<>>,
           queries |-> <<"get_artifact_types", "get_execution_types">>]
     ELSE [ok |-> TRUE, missing |-> {},
           types |-> Some(PipelineTypes(
              TypeByName(artifact_types, _TFX_DATASET_TYPE),
              TypeByName(artifact_types, _TFX_STATS_TYPE),
              TypeByName(artifact_types, _TFX_MODEL_TYPE),
              TypeByName(artifact_types, _TFX_METRICS_TYPE),
              TypeByName(execution_types, _TFX_TRAINER_TYPE))),
           queries |-> <<"get_artifact_types", "get_execution_types">>]

_get_tfx_pipeline_types ==
  LET artifact_names == {atype.name : atype \in store_get_artifact_types}
      missing_artifact_types == expected_artifact_types \ artifact_names
      execution_names == {etype.name : etype \in store_get_execution_types}
      missing_execution_types == expected_execution_types \ execution_names
  IN IF missing_artifact_types # {}
     THEN [ok |-> FALSE, missing |-> missing_artifact_types, types |-> <<>>,
           queries |-> <<"get_artifact_types">>]
     ELSE IF missing_execution_types # {}
     THEN [ok |-> FALSE, missing |-> missing_execution_types, types |-> <<>>,
           queries |-> <<"get_artifact_types", "get_execution_types">>]
     ELSE [ok |-> TRUE, missing |-> {},
           types |-> Some(PipelineTypes(
              TypeByName(artifact_types, _TFX_DATASET_TYPE),
              TypeByName(artifact_types, _TFX_STATS_TYPE),
              TypeByName(artifact_types, _TFX_MODEL_TYPE),
              TypeByName(artifact_types, _TFX_METRICS_TYPE),
              TypeByName(execution_types, _TFX_TRAINER_TYPE))),
           queries |-> <<"get_artifact_types", "get_execution_types">>]

\* `if not pipeline_types: pipeline_types = _get_tfx_pipeline_types(store)`
ResolvePipelineTypes(pipeline_types) ==
  IF IsNone(pipeline_types)
  THEN _get_tfx_pipeline_types
  ELSE [ok |-> TRUE, missing |-> {}, types |-> pipeline_types, queries |-> <<>>]

-----------------------------------------------------------------------------
(* _validate_model_id                                                      *)

\* Faulty variant: an id that no artifact has is let through instead of raising.
NoFoundCheck_validate_model_id(model_type, model_id) ==
  LET model_artifacts == store_get_artifacts_by_id({model_id})
  IN IF model_artifacts # <<>> /\ model_artifacts[1].type_id # model_type.id
     THEN [status |-> "not an instance of Model", model |-> <<>>,
           queries |-> <<"get_artifacts_by_id">>]
     ELSE [status |-> "ok", model |-> model_artifacts,
           queries |-> <<"get_artifacts_by_id">>]

\* Faulty variant: the artifact's id, not its type id, is compared with the Model
\* type's id.
IdForTypeId_validate_model_id(model_type, model_id) ==
  LET model_artifacts == store_get_artifacts_by_id({model_id})
  IN IF model_artifacts = <<>>
     THEN [status |-> "model_id cannot be found", model |-> <<>>,
           queries |-> <<"get_artifacts_by_id">>]
     ELSE IF model_artifacts[1].id # model_type.id
     THEN [status |-> "not an instance of Model", model |-> <<>>,
           queries |-> <<"get_artifacts_by_id">>]
     ELSE [status |-> "ok", model |-> Some(model_artifacts[1]),
           queries |-> <<"get_artifacts_by_id">>]

_validate_model_id(model_type, model_id) ==
  LET model_artifacts == store_get_artifacts_by_id({model_id})
  IN IF model_artifacts = <<>>
     THEN [status |-> "model_id cannot be found", model |-> <<>>,
           queries |-> <<"get_artifacts_by_id">>]
     ELSE IF model_artifacts[1].type_id # model_type.id
     THEN [status |-> "not an instance of Model", model |-> <<>>,
           queries |-> <<"get_artifacts_by_id">>]
     ELSE [status |-> "ok", model |-> Some(model_artifacts[1]),
           queries |-> <<"get_artifacts_by_id">>]

-----------------------------------------------------------------------------
(* _get_one_hop_artifacts, _get_one_hop_executions                         *)

\* Faulty variant: the ANCESTOR walk's second hop leaves out DECLARED_INPUT.
NoDeclaredInput_traverse_events(direction) ==
  IF direction = ANCESTOR
  THEN [execution |-> {OUTPUT, DECLARED_OUTPUT}, artifact |-> {INPUT}]
  ELSE [execution |-> {INPUT, DECLARED_INPUT}, artifact |-> {OUTPUT, DECLARED_OUTPUT}]

traverse_events(direction) ==
  IF direction = ANCESTOR
  THEN [execution |-> {OUTPUT, DECLARED_OUTPUT}, artifact |-> {INPUT, DECLARED_INPUT}]
  ELSE [execution |-> {INPUT, DECLARED_INPUT}, artifact |-> {OUTPUT, DECLARED_OUTPUT}]

\* Faulty variant: the walk forgets its type filter.
NoFilter_get_one_hop_artifacts(artifact_ids, direction, filter_type) ==
  LET executions_ids ==
        {event.execution_id :
           event \in {ev \in store_get_events_by_artifact_ids(artifact_ids) :
                        ev.type \in traverse_events(direction).execution}}
      artifacts_ids ==
        {event.artifact_id :
           event \in {ev \in store_get_events_by_execution_ids(executions_ids) :
                        ev.type \in traverse_events(direction).artifact}}
  IN [value |-> store_get_artifacts_by_id(artifacts_ids),
      queries |-> <<"get_events_by_artifact_ids", "get_events_by_execution_ids",
                    "get_artifacts_by_id">>]

\* Faulty variant: the first hop follows every event of the starting ids,
\* whatever its type.
AnyEvent_get_one_hop_artifacts(artifact_ids, direction, filter_type) ==
  LET executions_ids ==
        {event.execution_id : event \in store_get_events_by_artifact_ids(artifact_ids)}
      artifacts_ids ==
        {event.artifact_id :
           event \in {ev \in store_get_events_by_execution_ids(executions_ids) :
                        ev.type \in traverse_events(direction).artifact}}
      keep(artifact) == IsNone(filter_type) \/ artifact.type_id = Get(filter_type).id
  IN [value |-> SelectSeq(store_get_artifacts_by_id(artifacts_ids), keep),
      queries |-> <<"get_events_by_artifact_ids", "get_events_by_execution_ids",
                    "get_artifacts_by_id">>]

\* The store queries one artifact walk issues, in order.
OneHopQueries ==
  <<"get_events_by_artifact_ids", "get_events_by_execution_ids", "get_artifacts_by_id">>

_get_one_hop_artifacts(artifact_ids, direction, filter_type) ==
  LET executions_ids ==
        {event.execution_id :
           event \in {ev \in store_get_events_by_artifact_ids(artifact_ids) :
                        ev.type \in traverse_events(direction).execution}}
      artifacts_ids ==
        {event.artifact_id :
           event \in {ev \in store_get_events_by_execution_ids(executions_ids) :
                        ev.type \in traverse_events(direction).artifact}}
      keep(artifact) == IsNone(filter_type) \/ artifact.type_id = Get(filter_type).id
  IN [value |-> SelectSeq(store_get_artifacts_by_id(artifacts_ids), keep),
      queries |-> OneHopQueries]

traverse_event(direction) ==
  IF direction = ANCESTOR
  THEN {OUTPUT, DECLARED_OUTPUT}
  ELSE {INPUT, DECLARED_INPUT}

\* Faulty variant: the execution walk forgets its type filter.
NoFilter_get_one_hop_executions(artifact_ids, direction, filter_type) ==
  LET executions_ids ==
        {event.execution_id :
           event \in {ev \in store_get_events_by_artifact_ids(artifact_ids) :
                        ev.type \in traverse_event(direction)}}
  IN [value |-> store_get_executions_by_id(executions_ids),
      queries |-> <<"get_events_by_artifact_ids", "get_executions_by_id">>]

_get_one_hop_executions(artifact_ids, direction, filter_type) ==
  LET executions_ids ==
        {event.execution_id :
           event \in {ev \in store_get_events_by_artifact_ids(artifact_ids) :
                        ev.type \in traverse_event(direction)}}
      keep(execution) == IsNone(filter_type) \/ execution.type_id = Get(filter_type).id
  IN [value |-> SelectSeq(store_get_executions_by_id(executions_ids), keep),
      queries |-> <<"get_events_by_artifact_ids", "get_executions_by_id">>]

-----------------------------------------------------------------------------
(* The outcome of a model-keyed query.                                     *)

\* A call that raised ValueError: no artifact list, no model card.
Raised(status, missing, queries) ==
  [status |-> status, missing |-> missing, artifacts |-> <<>>, dataset_ids |-> {},
   card |-> <<>>, queries |-> queries]

ReturnedArtifacts(list, dataset_ids, queries) ==
  [status |-> "ok", missing |-> {}, artifacts |-> list, dataset_ids |-> dataset_ids,
   card |-> <<>>, queries |-> queries]

ReturnedCard(model_card, queries) ==
  [status |-> "ok", missing |-> {}, artifacts |-> <<>>, dataset_ids |-> {},
   card |-> Some(model_card), queries |-> queries]

\* The two steps every model-keyed query starts with: resolve the types when
\* none are passed, then validate the model id.
Validated(model_id, pipeline_types) ==
  LET resolved == ResolvePipelineTypes(pipeline_types)
  IN IF ~resolved.ok
     THEN [status |-> "store is invalid", missing |-> resolved.missing,
           types |-> <<>>, queries |-> resolved.queries]
     ELSE LET checked == _validate_model_id(Get(resolved.types).model_type, model_id)
          IN [status |-> checked.status, missing |-> {},
              types |-> IF checked.status = "ok" THEN resolved.types ELSE <<>>,
              queries |-> resolved.queries \o checked.queries]

-----------------------------------------------------------------------------
(* get_metrics_artifacts_for_model                                         *)

get_metrics_artifacts_for_model(model_id, pipeline_types) ==
  LET valid == Validated(model_id, pipeline_types)
      types == Get(valid.types)
      hop == _get_one_hop_artifacts({model_id}, SUCCESSOR, Some(types.metrics_type))
  IN IF valid.status # "ok"
     THEN Raised(valid.status, valid.missing, valid.queries)
     ELSE ReturnedArtifacts(hop.value, {}, valid.queries \o hop.queries)

-----------------------------------------------------------------------------
(* get_stats_artifacts_for_model                                           *)

RECURSIVE Find(_, _, _)
\* str.find: the first index >= start (0-based) where sub occurs in text, or -1.
Find(text, sub, start) ==
  IF start + Len(sub) > Len(text) THEN -1
  ELSE IF SubSeq(text, start + 1, start + Len(sub)) = sub THEN start
  ELSE Find(text, sub, start + 1)

IsTransformedExample(example) == Find(example.uri, "/Transform/", 0) # -1

\* Faulty variant: transformed examples are taken as datasets themselves, without the
\* extra hop to their originals.
NoOriginalLookup_StatsDatasetIds(trainer_examples, dataset_type) ==
  {example.id : example \in Range(trainer_examples)}

\* The dataset-id set of get_stats_artifacts_for_model: the trainer's
\* untransformed examples, and the one-hop Dataset ancestors of its
\* transformed examples.
StatsDatasetIds(trainer_examples, dataset_type) ==
  LET transformed_example_ids ==
        {example.id : example \in {ex \in Range(trainer_examples) :
                                      IsTransformedExample(ex)}}
      untransformed_ids ==
        {example.id : example \in {ex \in Range(trainer_examples) :
                                      ~IsTransformedExample(ex)}}
      originals ==
        _get_one_hop_artifacts(transformed_example_ids, ANCESTOR, Some(dataset_type))
  IN untransformed_ids \cup {dataset.id : dataset \in Range(originals.value)}

get_stats_artifacts_for_model(model_id, pipeline_types) ==
  LET valid == Validated(model_id, pipeline_types)
      types == Get(valid.types)
      trainer_examples ==
        _get_one_hop_artifacts({model_id}, ANCESTOR, Some(types.dataset_type))
      dataset_ids == StatsDatasetIds(trainer_examples.value, types.dataset_type)
      stats == _get_one_hop_artifacts(dataset_ids, SUCCESSOR, Some(types.stats_type))
  IN IF valid.status # "ok"
     THEN Raised(valid.status, valid.missing, valid.queries)
     ELSE ReturnedArtifacts(stats.value, dataset_ids,
            valid.queries \o trainer_examples.queries \o OneHopQueries \o stats.queries)

-----------------------------------------------------------------------------
(* _property_value                                                         *)

\* A stored property value: a oneof over int_value, double_value and
\* string_value; reading a variant that is not the populated one gives the
\* variant's default.
IntValue(n) == [which |-> "int_value", int_value |-> n, double_value |-> 0, string_value |-> ""]
DoubleValue(n) == [which |-> "double_value", int_value |-> 0, double_value |-> n, string_value |-> ""]
StringValue(t) == [which |-> "string_value", int_value |-> 0, double_value |-> 0, string_value |-> t]

_property_value(node, name, is_custom_property) ==
  LET properties == IF is_custom_property THEN node.custom_properties ELSE node.properties
  IN IF name \notin DOMAIN properties THEN PyNone
     ELSE IF properties[name].which = "int_value" THEN PyInt(properties[name].int_value)
     ELSE IF properties[name].which = "float_value" THEN PyFloat(properties[name].double_value)
     ELSE PyStr(properties[name].string_value)

-----------------------------------------------------------------------------
(* generate_model_card_for_model                                           *)

\* model_card_module.ModelCard(): the model details of a fresh model card.
ModelCard == [name |-> PyNone, version_name |-> PyNone, references |-> <<>>]

\* Faulty variant: the name is read from the first found trainer, like the rest.
FirstTrainer_ModelDetails(trainers) ==
  IF trainers # <<>>
  THEN [name |-> _property_value(trainers[1], "module_file", FALSE),
        version_name |-> _property_value(trainers[1], "checksum_md5", FALSE),
        references |-> <<_property_value(trainers[1], "pipeline_name", FALSE)>>]
  ELSE ModelCard

\* The model details written from the found trainers.
ModelDetails(trainers) ==
  IF trainers # <<>>
  THEN [name |-> _property_value(trainers[Len(trainers)], "module_file", FALSE),
        version_name |-> _property_value(trainers[1], "checksum_md5", FALSE),
        references |-> <<_property_value(trainers[1], "pipeline_name", FALSE)>>]
  ELSE ModelCard

generate_model_card_for_model(model_id, pipeline_types) ==
  LET valid == Validated(model_id, pipeline_types)
      types == Get(valid.types)
      found == _get_one_hop_executions({model_id}, ANCESTOR, Some(types.trainer_type))
  IN IF valid.status # "ok"
     THEN Raised(valid.status, valid.missing, valid.queries)
     ELSE ReturnedCard(ModelDetails(found.value), valid.queries \o found.queries)

-----------------------------------------------------------------------------
(* annotate_eval_result_metrics                                            *)

\* str(): a float is held in tenths and prints with one decimal.
Str(v) ==
  CASE v.kind = "int" -> ToString(v.i)
    [] v.kind = "float" -> ToString(v.i \div 10) \o "." \o ToString(v.i % 10)
    [] v.kind = "str" -> v.s
    [] v.kind = "NoneType" -> "None"

RECURSIVE Join(_, _)
\* sep.join(parts)
Join(parts, sep) ==
  IF parts = <<>> THEN ""
  ELSE IF Len(parts) = 1 THEN parts[1]
  ELSE parts[1] \o sep \o Join(Tail(parts), sep)

\* Faulty variant: the dimensions are joined with '_'.
UnderscoreJoin_SliceName(slice_repr) ==
  Join([k \in 1..Len(slice_repr.dims) |->
          Str(slice_repr.dims[k][1]) \o "_" \o Str(slice_repr.dims[k][2])], "_")

\* '_X_'.join(f'{a}_{b}' for a, b in slice_repr)
SliceName(slice_repr) ==
  Join([k \in 1..Len(slice_repr.dims) |->
          Str(slice_repr.dims[k][1]) \o "_" \o Str(slice_repr.dims[k][2])], "_X_")

PerformanceMetric(type, value, slice) == [type |-> type, value |-> value, slice |-> slice]

RECURSIVE SkipUnknown_AnnotateMetrics(_, _, _, _)
\* Faulty variant: a metric value of an unexpected shape is passed over
\* instead of raising.
SkipUnknown_AnnotateMetrics(list, slice_name, metrics, j) ==
  IF j > Len(metrics) THEN [status |-> "ok", list |-> list]
  ELSE LET metric_name == metrics[j].name
           metric_value == metrics[j].value
       IN IF "doubleValue" \in DOMAIN metric_value
          THEN SkipUnknown_AnnotateMetrics(
                 Append(list, PerformanceMetric(metric_name,
                                Str(metric_value.doubleValue), slice_name)),
                 slice_name, metrics, j + 1)
          ELSE IF "boundedValue" \in DOMAIN metric_value
          THEN IF "value" \in DOMAIN metric_value.boundedValue
               THEN SkipUnknown_AnnotateMetrics(
                      Append(list, PerformanceMetric(metric_name,
                                     Str(metric_value.boundedValue.value), slice_name)),
                      slice_name, metrics, j + 1)
               ELSE [status |-> "KeyError: 'value'", list |-> list]
          ELSE SkipUnknown_AnnotateMetrics(list, slice_name, metrics, j + 1)

RECURSIVE AnnotateMetrics(_, _, _, _)
\* The inner loop from the j-th metric on: `list` is the performance-metric
\* list as appended to so far.
AnnotateMetrics(list, slice_name, metrics, j) ==
  IF j > Len(metrics) THEN [status |-> "ok", list |-> list]
  ELSE LET metric_name == metrics[j].name
           metric_value == metrics[j].value
       IN IF "doubleValue" \in DOMAIN metric_value
          THEN AnnotateMetrics(
                 Append(list, PerformanceMetric(metric_name,
                                Str(metric_value.doubleValue), slice_name)),
                 slice_name, metrics, j + 1)
          ELSE IF "boundedValue" \in DOMAIN metric_value
          THEN IF "value" \in DOMAIN metric_value.boundedValue
               THEN AnnotateMetrics(
                      Append(list, PerformanceMetric(metric_name,
                                     Str(metric_value.boundedValue.value), slice_name)),
                      slice_name, metrics, j + 1)
               ELSE [status |-> "KeyError: 'value'", list |-> list]
          ELSE [status |-> "ValueError: Expected doubleValue or boundedValue",
                list |-> list]

RECURSIVE AnnotateSlices(_, _, _)
\* The outer loop from the i-th slice on.
AnnotateSlices(list, slices, i) ==
  IF i > Len(slices) THEN [status |-> "ok", list |-> list]
  ELSE LET slice_repr == slices[i].slice
       IN IF ~slice_repr.is_tuple
          THEN [status |-> "ValueError: Expected EvalResult slices to be tuples",
                list |-> list]
          ELSE IF \E k \in 1..Len(slice_repr.dims) : Len(slice_repr.dims[k]) # 2
          THEN [status |-> "ValueError: unpack", list |-> list]
          ELSE LET done == AnnotateMetrics(list, SliceName(slice_repr),
                                           slices[i].metrics, 1)
               IN IF done.status # "ok" THEN done
                  ELSE AnnotateSlices(done.list, slices, i + 1)

\* `metrics_for_all_slices` is eval_result.get_metrics_for_all_slices(): the
\* slices in order, each with its metrics in order.
annotate_eval_result_metrics(metrics_list, metrics_for_all_slices) ==
  AnnotateSlices(metrics_list, metrics_for_all_slices, 1)

-----------------------------------------------------------------------------
(* The stores the queries are run against.                                 *)

\* Bounds of the enumeration.
MaxEvents == 5          \* events of a store whose events are all INPUT or OUTPUT
MaxTypedEvents == 2     \* events of a store whose events are of any type

\* What a pipeline writes: the kind of an artifact fixes its type and where
\* its payload lives.
ArtifactKinds ==
  [Model |-> [type |-> _TFX_MODEL_TYPE, dir |-> "/pipeline/Trainer/model/"],
   Examples |-> [type |-> _TFX_DATASET_TYPE, dir |-> "/pipeline/CsvExampleGen/examples/"],
   TransformedExamples |->
     [type |-> _TFX_DATASET_TYPE, dir |-> "/pipeline/Transform/transformed_examples/"],
   Statistics |-> [type |-> _TFX_STATS_TYPE, dir |-> "/pipeline/StatisticsGen/statistics/"],
   Evaluation |-> [type |-> _TFX_METRICS_TYPE, dir |-> "/pipeline/Evaluator/evaluation/"],
   Schema |-> [type |-> OtherArtifactType, dir |-> "/pipeline/PreTransform/schema/"]]

Artifact(id, kind) ==
  [id |-> id, type_id |-> ArtifactType(ArtifactKinds[kind].type).id,
   uri |-> ArtifactKinds[kind].dir \o ToString(id)]

\* The properties a component run is published with.
ExecutionProperties ==
  <<[properties |->
       [module_file |-> StringValue("trainer_a.py"), checksum_md5 |-> StringValue("md5_a"),
        pipeline_name |-> StringValue("pipeline_a")],
     custom_properties |-> [module_file |-> StringValue("custom_a.py")]],
    [properties |->
       [module_file |-> StringValue("trainer_b.py"), checksum_md5 |-> IntValue(7)],
     custom_properties |->
       [pipeline_name |-> StringValue("custom_b"), checksum_md5 |-> DoubleValue(3)]]>>

Execution(id, type_name) ==
  [id |-> id, type_id |-> ExecutionType(type_name).id,
   properties |-> ExecutionProperties[id].properties,
   custom_properties |-> ExecutionProperties[id].custom_properties]

\* The pipelines: the artifacts and the executions of a store, by id.
Pipelines ==
  {[artifacts |-> <<"Model", "TransformedExamples", "Examples", "Statistics">>,
    executions |-> <<_TFX_TRAINER_TYPE, OtherExecutionType>>],
   [artifacts |-> <<"Model", "TransformedExamples", "TransformedExamples", "Statistics">>,
    executions |-> <<_TFX_TRAINER_TYPE, OtherExecutionType>>],
   [artifacts |-> <<"Model", "Evaluation", "Schema", "Model">>,
    executions |-> <<_TFX_TRAINER_TYPE, _TFX_TRAINER_TYPE>>]}

PipelineArtifacts(p) == [id \in 1..Len(p.artifacts) |-> Artifact(id, p.artifacts[id])]
PipelineExecutions(p) == [id \in 1..Len(p.executions) |-> Execution(id, p.executions[id])]

\* The event sets over the ids of a pipeline: at most one event per
\* (artifact, execution) pair, at most `n` events, of the types `types`.
EventSets(p, n, types) ==
  LET pairs == (1..Len(p.artifacts)) \X (1..Len(p.executions))
      chosen == {P \in SUBSET pairs : Cardinality(P) <= n}
  IN UNION {{{[artifact_id |-> pr[1], execution_id |-> pr[2], type |-> f[pr]] : pr \in P} :
               f \in [P -> types]} : P \in chosen}

PipelineEventSets(p) ==
  EventSets(p, MaxEvents, {INPUT, OUTPUT}) \cup EventSets(p, MaxTypedEvents, EventTypes)

AllArtifactTypes ==
  {ArtifactType(n) : n \in expected_artifact_types \cup {OtherArtifactType}}
AllExecutionTypes ==
  {ExecutionType(n) : n \in expected_execution_types \cup {OtherExecutionType}}

\* A store of a TFX pipeline: every required type is registered.
InitPipelineStore ==
  \E p \in Pipelines :
    /\ artifact_types = AllArtifactTypes
    /\ execution_types = AllExecutionTypes
    /\ artifacts = PipelineArtifacts(p)
    /\ executions = PipelineExecutions(p)
    /\ events \in PipelineEventSets(p)

\* The lineage of one training run: transformed examples, their original
\* dataset and its statistics.
TrainingRun ==
  [artifacts |-> <<"Model", "TransformedExamples", "Examples", "Statistics">>,
   executions |-> <<_TFX_TRAINER_TYPE, OtherExecutionType>>,
   events |-> {[artifact_id |-> 2, execution_id |-> 1, type |-> INPUT],
               [artifact_id |-> 1, execution_id |-> 1, type |-> OUTPUT],
               [artifact_id |-> 3, execution_id |-> 2, type |-> INPUT],
               [artifact_id |-> 2, execution_id |-> 2, type |-> OUTPUT],
               [artifact_id |-> 4, execution_id |-> 2, type |-> OUTPUT]}]

\* A store that registers only some of the required type names; with `cross`
\* the names it lacks as artifact types are registered as execution types and
\* the other way round.  It holds the nodes of TrainingRun whose type it has.
InitOtherStore ==
  \E present \in SUBSET RequiredTypeNames, cross \in BOOLEAN :
    LET absent == RequiredTypeNames \ present
        art_names == (present \cap expected_artifact_types) \cup {OtherArtifactType}
                       \cup (IF cross THEN absent \cap expected_execution_types ELSE {})
        exe_names == (present \cap expected_execution_types) \cup {OtherExecutionType}
                       \cup (IF cross THEN absent \cap expected_artifact_types ELSE {})
        arts == PipelineArtifacts(TrainingRun)
        exes == PipelineExecutions(TrainingRun)
        art_ids == {id \in DOMAIN arts :
                      \E n \in art_names : arts[id].type_id = ArtifactType(n).id}
        exe_ids == {id \in DOMAIN exes :
                      \E n \in exe_names : exes[id].type_id = ExecutionType(n).id}
    IN /\ present # RequiredTypeNames
       /\ artifact_types = {ArtifactType(n) : n \in art_names}
       /\ execution_types = {ExecutionType(n) : n \in exe_names}
       /\ artifacts = [id \in art_ids |-> arts[id]]
       /\ executions = [id \in exe_ids |-> exes[id]]
       /\ events = {ev \in TrainingRun.events :
                      ev.artifact_id \in art_ids /\ ev.execution_id \in exe_ids}

-----------------------------------------------------------------------------
(* The calls.                                                              *)

NoCall == [op |-> "none", model_id |-> 0, pipeline_types |-> <<>>]
NoResult == Raised("none", {}, <<>>)
NoAnnotation == [status |-> "none", before |-> <<>>, eval_result |-> <<>>]

\* Model ids a caller passes: 0 is the id of a fresh Artifact(), which no
\* stored artifact has.
ModelIds == 0..4

\* Registries a caller passes: none, the registry resolved from a TFX store,
\* and a registry of custom types.
StandardPipelineTypes ==
  PipelineTypes(ArtifactType(_TFX_DATASET_TYPE), ArtifactType(_TFX_STATS_TYPE),
                ArtifactType(_TFX_MODEL_TYPE), ArtifactType(_TFX_METRICS_TYPE),
                ExecutionType(_TFX_TRAINER_TYPE))
CustomPipelineTypes ==
  PipelineTypes(ArtifactType(_TFX_MODEL_TYPE), ArtifactType(_TFX_STATS_TYPE),
                ArtifactType(_TFX_DATASET_TYPE), ArtifactType(OtherArtifactType),
                ExecutionType(OtherExecutionType))
PipelineTypesArgs == {<<>>, Some(StandardPipelineTypes), Some(CustomPipelineTypes)}

Init ==
  /\ InitPipelineStore \/ InitOtherStore
  /\ call = NoCall
  /\ result = NoResult
  /\ performance_metrics = <<>>
  /\ annotation = NoAnnotation

Idle == call.op = "none"

\* Faulty variant: the query takes the model's events out of the store as it
\* follows them.
Consuming_GetMetricsArtifactsForModel ==
  \E model_id \in ModelIds, pipeline_types \in PipelineTypesArgs :
    /\ Idle
    /\ call' = [op |-> "get_metrics_artifacts_for_model", model_id |-> model_id,
                pipeline_types |-> pipeline_types]
    /\ result' = get_metrics_artifacts_for_model(model_id, pipeline_types)
    /\ events' = {event \in events : event.artifact_id # model_id}
    /\ UNCHANGED <<artifact_types, execution_types, artifacts, executions, cardVars>>

GetMetricsArtifactsForModel ==
  \E model_id \in ModelIds, pipeline_types \in PipelineTypesArgs :
    /\ Idle
    /\ call' = [op |-> "get_metrics_artifacts_for_model", model_id |-> model_id,
                pipeline_types |-> pipeline_types]
    /\ result' = get_metrics_artifacts_for_model(model_id, pipeline_types)
    /\ UNCHANGED <<storeVars, cardVars>>

GetStatsArtifactsForModel ==
  \E model_id \in ModelIds, pipeline_types \in PipelineTypesArgs :
    /\ Idle
    /\ call' = [op |-> "get_stats_artifacts_for_model", model_id |-> model_id,
                pipeline_types |-> pipeline_types]
    /\ result' = get_stats_artifacts_for_model(model_id, pipeline_types)
    /\ UNCHANGED <<storeVars, cardVars>>

GenerateModelCardForModel ==
  \E model_id \in ModelIds, pipeline_types \in PipelineTypesArgs :
    /\ Idle
    /\ call' = [op |-> "generate_model_card_for_model", model_id |-> model_id,
                pipeline_types |-> pipeline_types]
    /\ result' = generate_model_card_for_model(model_id, pipeline_types)
    /\ UNCHANGED <<storeVars, cardVars>>

\* The caller takes the outcome of the call; the next call starts afresh.
Return ==
  /\ ~Idle
  /\ call' = NoCall
  /\ result' = NoResult
  /\ UNCHANGED <<storeVars, cardVars>>

Next ==
  \/ GetMetricsArtifactsForModel
  \/ GetStatsArtifactsForModel
  \/ GenerateModelCardForModel
  \/ Return

Spec == Init /\ [][Next]_vars

-----------------------------------------------------------------------------
(* The evaluation results the annotator is run on.                         *)

MaxSlices == 2          \* slices of an evaluation result

\* Slice keys: the overall slice, one dimension, two dimensions, a key that
\* is no tuple, and a tuple whose element is no pair.
SliceKeys ==
  {[is_tuple |-> TRUE, dims |-> <<>>],
   [is_tuple |-> TRUE, dims |-> <<<<PyStr("weekday"), PyInt(0)>>>>],
   [is_tuple |-> TRUE,
    dims |-> <<<<PyStr("gender"), PyStr("male")>>, <<PyStr("age"), PyInt(10)>>>>],
   [is_tuple |-> FALSE, dims |-> <<>>],
   [is_tuple |-> TRUE, dims |-> <<<<PyStr("weekday"), PyInt(0), PyInt(1)>>>>]}

\* Metric values, by metric name.
MetricValues ==
  [average_loss |->
     {[doubleValue |-> PyFloat(5)],
      [unknownValue |-> PyFloat(5)],
      [doubleValue |-> PyFloat(5),
       boundedValue |-> [value |-> PyFloat(12), lower_bound |-> PyFloat(10),
                         upper_bound |-> PyFloat(14)]]},
   prediction_mean |->
     {[boundedValue |-> [value |-> PyFloat(12), lower_bound |-> PyFloat(10),
                         upper_bound |-> PyFloat(14)]],
      [doubleValue |-> PyFloat(30)],
      [boundedValue |-> [lower_bound |-> PyFloat(10), upper_bound |-> PyFloat(14)]]}]

MetricNames == [average_loss |-> "average_loss", prediction_mean |-> "prediction/mean"]

\* The metrics of one slice: none, one, or the two; the two also in the
\* other order when one holds a bounded and the other a direct value.
MetricsOfASlice ==
  LET one(n) == {<<[name |-> MetricNames[n], value |-> v]>> : v \in MetricValues[n]}
      two(n, m) == {a \o b : a \in one(n), b \in one(m)}
      swapped == {r \in two("prediction_mean", "average_loss") :
                    /\ DOMAIN r[1].value = {"boundedValue"}
                    /\ "value" \in DOMAIN r[1].value.boundedValue
                    /\ DOMAIN r[2].value = {"doubleValue"}}
  IN {<<>>} \cup one("average_loss") \cup one("prediction_mean")
       \cup two("average_loss", "prediction_mean") \cup swapped

SliceEntries == {[slice |-> k, metrics |-> m] : k \in SliceKeys, m \in MetricsOfASlice}

\* The slices are the keys of a dict: no slice key comes twice.
DistinctSlices(r) == \A i, j \in 1..Len(r) : r[i].slice = r[j].slice => i = j

\* The performance metrics a card holds before it is annotated.
CardsBefore ==
  {<<>>, <<PerformanceMetric("accuracy", "0.9", "")>>}

InitAnnotate ==
  /\ artifact_types = AllArtifactTypes
  /\ execution_types = AllExecutionTypes
  /\ artifacts = PipelineArtifacts(TrainingRun)
  /\ executions = PipelineExecutions(TrainingRun)
  /\ events = TrainingRun.events
  /\ call = NoCall
  /\ result = NoResult
  /\ performance_metrics \in CardsBefore
  /\ annotation = NoAnnotation

AnnotateEvalResultMetrics ==
  /\ annotation.status = "none"
  /\ \E n \in 0..MaxSlices : \E eval_result \in [1..n -> SliceEntries] :
       LET done == annotate_eval_result_metrics(performance_metrics, eval_result)
       IN /\ DistinctSlices(eval_result)
          /\ performance_metrics' = done.list
          /\ annotation' = [status |-> done.status, before |-> performance_metrics,
                            eval_result |-> eval_result]
          /\ UNCHANGED <<storeVars, call, result>>

NextAnnotate == AnnotateEvalResultMetrics

SpecAnnotate == InitAnnotate /\ [][NextAnnotate]_vars

-----------------------------------------------------------------------------
(* Vocabulary of the properties: the lineage relations, stated over the    *)
(* events of the store and not through the walks of the code.              *)

ArtifactTypeNames == {t.name : t \in artifact_types}
ExecutionTypeNames == {t.name : t \in execution_types}

\* The store registers the four artifact type names and the trainer name.
HasRequiredTypes ==
  /\ expected_artifact_types \subseteq ArtifactTypeNames
  /\ expected_execution_types \subseteq ExecutionTypeNames

Called == call.op # "none"
CalledOp(op) == call.op = op
ModelKeyedQueries ==
  {"get_metrics_artifacts_for_model", "get_stats_artifacts_for_model",
   "generate_model_card_for_model"}

\* Queries that look up a node or an event of the store.
LookupQueries ==
  {"get_artifacts_by_id", "get_executions_by_id", "get_events_by_artifact_ids",
   "get_events_by_execution_ids"}
TraversalQueries ==
  {"get_executions_by_id", "get_events_by_artifact_ids", "get_events_by_execution_ids"}

\* The registry the call works with: the one passed, else the store's types
\* of the required names.
RegistryInUse ==
  IF IsNone(call.pipeline_types)
  THEN [dataset_type |-> TypeByName(artifact_types, "Examples"),
        stats_type |-> TypeByName(artifact_types, "ExampleStatistics"),
        model_type |-> TypeByName(artifact_types, "Model"),
        metrics_type |-> TypeByName(artifact_types, "ModelEvaluation"),
        trainer_type |-> TypeByName(execution_types,
                                    "tfx.components.trainer.component.Trainer")]
  ELSE call.pipeline_types[1]

ModelIdIsStored == call.model_id \in DOMAIN artifacts
ModelIdIsModel ==
  /\ ModelIdIsStored
  /\ artifacts[call.model_id].type_id = RegistryInUse.model_type.id

InputEventTypes == {"INPUT", "DECLARED_INPUT"}
OutputEventTypes == {"OUTPUT", "DECLARED_OUTPUT"}

Linked(artifact_id, execution_id, types) ==
  \E ev \in events :
    /\ ev.artifact_id = artifact_id
    /\ ev.execution_id = execution_id
    /\ ev.type \in types

EventExecutionIds == {ev.execution_id : ev \in events}

\* a is produced by an execution that consumed some s in S.
SuccessorIds(S) ==
  {a \in DOMAIN artifacts :
     \E s \in S, e \in EventExecutionIds :
       Linked(s, e, InputEventTypes) /\ Linked(a, e, OutputEventTypes)}

\* a is consumed by an execution that produced some s in S.
AncestorIds(S) ==
  {a \in DOMAIN artifacts :
     \E s \in S, e \in EventExecutionIds :
       Linked(s, e, OutputEventTypes) /\ Linked(a, e, InputEventTypes)}

OfType(ids, type) == {a \in ids : artifacts[a].type_id = type.id}

UriHasTransform(a) ==
  \E i \in 1..Len(artifacts[a].uri) :
    /\ i + 10 <= Len(artifacts[a].uri)
    /\ SubSeq(artifacts[a].uri, i, i + 10) = "/Transform/"

ReturnedIds == {result.artifacts[i].id : i \in 1..Len(result.artifacts)}
NoRepeat == Cardinality(ReturnedIds) = Len(result.artifacts)
ReturnsNothing == result.artifacts = <<>> /\ result.card = <<>>

-----------------------------------------------------------------------------
(* C1, C2: the type resolver.                                              *)

\* C1 as stated: in a store that lacks a required type name every model-keyed
\* query, whatever its arguments, fails with the missing-type error before
\* any artifact, execution or event is looked up.
C1_AnyArguments ==
  (Called /\ ~HasRequiredTypes) =>
    /\ result.status = "store is invalid"
    /\ Range(result.queries) \cap LookupQueries = {}

\* C1, amended: in a store that lacks a required type name every model-keyed
\* query that is passed no type registry fails with the missing-type error,
\* returns nothing, and has looked up no artifact, execution or event.
C1_WithoutRegistry ==
  (Called /\ ~HasRequiredTypes /\ IsNone(call.pipeline_types)) =>
    /\ result.status = "store is invalid"
    /\ result.missing # {}
    /\ ReturnsNothing
    /\ Range(result.queries) \cap LookupQueries = {}

C1_Witness ==
  /\ CalledOp("generate_model_card_for_model")
  /\ IsNone(call.pipeline_types)
  /\ ModelIdIsStored
  /\ "Model" \in ArtifactTypeNames
  /\ "tfx.components.trainer.component.Trainer" \notin ExecutionTypeNames
  /\ result.status = "store is invalid"

\* C2 as stated: the names in the resolver's error are the required names
\* that neither the artifact types nor the execution types of the store have.
C2_AllMissingNamed ==
  (Called /\ result.status = "store is invalid") =>
    result.missing = RequiredTypeNames \ (ArtifactTypeNames \cup ExecutionTypeNames)

\* C2, amended: the names in the resolver's error are the required artifact
\* type names that no artifact type of the store has, when there are any, and
\* otherwise the required execution type names that no execution type has.
C2_MissingByKind ==
  (Called /\ result.status = "store is invalid") =>
    result.missing =
      IF expected_artifact_types \ ArtifactTypeNames # {}
      THEN expected_artifact_types \ ArtifactTypeNames
      ELSE expected_execution_types \ ExecutionTypeNames

C2_Witness ==
  /\ Called
  /\ result.status = "store is invalid"
  /\ "Model" \notin ArtifactTypeNames \cup ExecutionTypeNames
  /\ "tfx.components.trainer.component.Trainer"
       \notin ArtifactTypeNames \cup ExecutionTypeNames
  /\ result.missing = {"Model"}

-----------------------------------------------------------------------------
(* C3, C4: the model validator.                                            *)

\* C3: in a store with the required types, a model-keyed query for an id no
\* artifact has fails with the not-found error and returns nothing, with or
\* without a registry passed.
C3_ModelNotFound ==
  (Called /\ HasRequiredTypes /\ ~ModelIdIsStored) =>
    /\ result.status = "model_id cannot be found"
    /\ ReturnsNothing

C3_Witness ==
  /\ CalledOp("get_stats_artifacts_for_model")
  /\ HasRequiredTypes
  /\ ~IsNone(call.pipeline_types)
  /\ ~ModelIdIsStored
  /\ artifacts # <<>>
  /\ result.status = "model_id cannot be found"

\* C4: in a store with the required types, a model-keyed query for the id of
\* an artifact whose type id is not the Model type id of the registry in use
\* fails with the type-mismatch error and traverses no lineage; the id of an
\* artifact with that type id passes validation.
C4_NotAModel ==
  (Called /\ HasRequiredTypes /\ ModelIdIsStored) =>
    IF ModelIdIsModel
    THEN result.status = "ok"
    ELSE /\ result.status = "not an instance of Model"
         /\ ReturnsNothing
         /\ Range(result.queries) \cap TraversalQueries = {}

C4_Witness ==
  /\ CalledOp("get_metrics_artifacts_for_model")
  /\ HasRequiredTypes
  /\ ModelIdIsStored
  /\ ~ModelIdIsModel
  /\ SuccessorIds({call.model_id}) # {}
  /\ result.status = "not an instance of Model"

-----------------------------------------------------------------------------
(* C5: metrics of a model.                                                 *)

\* C5: for a valid store and the id m of a Model artifact,
\* get_metrics_artifacts_for_model succeeds and returns, each once, exactly
\* the stored artifacts of the evaluation type (of the registry in use) that
\* some execution produced (OUTPUT or DECLARED_OUTPUT) having consumed m
\* (INPUT or DECLARED_INPUT).
C5_MetricsOfModel ==
  (CalledOp("get_metrics_artifacts_for_model") /\ HasRequiredTypes /\ ModelIdIsModel) =>
    /\ result.status = "ok"
    /\ NoRepeat
    /\ \A i \in 1..Len(result.artifacts) :
         result.artifacts[i] = artifacts[result.artifacts[i].id]
    /\ ReturnedIds = OfType(SuccessorIds({call.model_id}), RegistryInUse.metrics_type)

C5_Witness ==
  /\ CalledOp("get_metrics_artifacts_for_model")
  /\ IsNone(call.pipeline_types)
  /\ HasRequiredTypes
  /\ ModelIdIsModel
  /\ ReturnedIds # {}
  /\ SuccessorIds({call.model_id}) \ ReturnedIds # {}

-----------------------------------------------------------------------------
(* C6, C7: statistics of a model.                                          *)

\* The Dataset-typed one-hop ancestors of the model: the trainer's examples.
TrainerExampleIds == OfType(AncestorIds({call.model_id}), RegistryInUse.dataset_type)
TransformedTrainerExampleIds == {a \in TrainerExampleIds : UriHasTransform(a)}

\* The dataset-id set as C6 describes it.
DatasetIdsOfModel ==
  (TrainerExampleIds \ TransformedTrainerExampleIds)
    \cup OfType(AncestorIds(TransformedTrainerExampleIds), RegistryInUse.dataset_type)

\* C6: for a valid store and the id m of a Model artifact,
\* get_stats_artifacts_for_model succeeds and returns exactly the
\* Statistics-typed one-hop successors of D, the union of m's Dataset-typed
\* ancestors without '/Transform/' in the URI and the Dataset-typed ancestors
\* of m's Dataset-typed ancestors with it; with no Dataset-typed ancestor the
\* result is empty.
C6_StatsOfModel ==
  (CalledOp("get_stats_artifacts_for_model") /\ HasRequiredTypes /\ ModelIdIsModel) =>
    /\ result.status = "ok"
    /\ NoRepeat
    /\ ReturnedIds = OfType(SuccessorIds(DatasetIdsOfModel), RegistryInUse.stats_type)
    /\ TrainerExampleIds = {} => result.artifacts = <<>>

C6_Witness ==
  /\ CalledOp("get_stats_artifacts_for_model")
  /\ IsNone(call.pipeline_types)
  /\ HasRequiredTypes
  /\ ModelIdIsModel
  /\ TrainerExampleIds # {}
  /\ TransformedTrainerExampleIds = TrainerExampleIds
  /\ ReturnedIds # {}
  /\ \A a \in DatasetIdsOfModel : ~UriHasTransform(a)

\* C7 as stated: when a trainer input of the model is a transformed-examples
\* artifact, no artifact with '/Transform/' in its URI is in the dataset-id
\* set the final Statistics hop starts from.
C7_NoTransformedDataset ==
  (/\ CalledOp("get_stats_artifacts_for_model")
   /\ HasRequiredTypes
   /\ ModelIdIsModel
   /\ TransformedTrainerExampleIds # {}) =>
    \A a \in result.dataset_ids : ~UriHasTransform(a)

-----------------------------------------------------------------------------
(* C8, C9: the model card of a model.                                      *)

\* The executions of the trainer type (of the registry in use) linked to the
\* model by an OUTPUT or DECLARED_OUTPUT event.
FoundTrainerIds ==
  {e \in DOMAIN executions :
     /\ executions[e].type_id = RegistryInUse.trainer_type.id
     /\ Linked(call.model_id, e, OutputEventTypes)}

\* The store lists executions by ascending id.
FirstFoundTrainer == executions[CHOOSE e \in FoundTrainerIds : \A f \in FoundTrainerIds : e <= f]
LastFoundTrainer == executions[CHOOSE e \in FoundTrainerIds : \A f \in FoundTrainerIds : e >= f]

\* The value stored under `name` in the properties of a node.
StoredProperty(node, name) ==
  IF name \notin DOMAIN node.properties THEN [kind |-> "NoneType", i |-> 0, s |-> ""]
  ELSE LET v == node.properties[name]
       IN CASE v.which = "int_value" -> [kind |-> "int", i |-> v.int_value, s |-> ""]
            [] v.which = "double_value" -> [kind |-> "float", i |-> v.double_value, s |-> ""]
            [] v.which = "string_value" -> [kind |-> "str", i |-> 0, s |-> v.string_value]

\* C8: for a valid store and the id of a Model artifact that no trainer
\* execution is linked to by an OUTPUT or DECLARED_OUTPUT event,
\* generate_model_card_for_model succeeds and the name, the version label and
\* the references of the card are unset.
C8_NoTrainer ==
  (/\ CalledOp("generate_model_card_for_model")
   /\ HasRequiredTypes
   /\ ModelIdIsModel
   /\ FoundTrainerIds = {}) =>
    /\ result.status = "ok"
    /\ result.card =
         <<[name |-> [kind |-> "NoneType", i |-> 0, s |-> ""],
            version_name |-> [kind |-> "NoneType", i |-> 0, s |-> ""],
            references |-> <<>>]>>

C8_Witness ==
  /\ CalledOp("generate_model_card_for_model")
  /\ IsNone(call.pipeline_types)
  /\ HasRequiredTypes
  /\ ModelIdIsModel
  /\ FoundTrainerIds = {}
  /\ \E e \in DOMAIN executions : Linked(call.model_id, e, OutputEventTypes)
  /\ \E e \in DOMAIN executions :
       /\ executions[e].type_id = RegistryInUse.trainer_type.id
       /\ Linked(call.model_id, e, {"INPUT", "INTERNAL_OUTPUT"})
  /\ result.status = "ok"

-----------------------------------------------------------------------------
(* C10: the metric annotator.                                              *)

Annotated == annotation.status # "none"

\* Every slice key is a tuple of pairs and every metric value carries exactly
\* one of the direct scalar and the bounded value with its 'value'.
WellFormedEvalResult(r) ==
  \A i \in 1..Len(r) :
    /\ r[i].slice.is_tuple
    /\ \A k \in 1..Len(r[i].slice.dims) : Len(r[i].slice.dims[k]) = 2
    /\ \A j \in 1..Len(r[i].metrics) :
         \/ DOMAIN r[i].metrics[j].value = {"doubleValue"}
         \/ /\ DOMAIN r[i].metrics[j].value = {"boundedValue"}
            /\ "value" \in DOMAIN r[i].metrics[j].value.boundedValue

\* The labels and the texts the annotator is to produce, written out.
ExpectedSliceLabel(slice) ==
  CASE slice.dims = <<>> -> ""
    [] slice.dims = <<<<[kind |-> "str", i |-> 0, s |-> "weekday"],
                        [kind |-> "int", i |-> 0, s |-> ""]>>>> -> "weekday_0"
    [] slice.dims = <<<<[kind |-> "str", i |-> 0, s |-> "gender"],
                        [kind |-> "str", i |-> 0, s |-> "male"]>>,
                      <<[kind |-> "str", i |-> 0, s |-> "age"],
                        [kind |-> "int", i |-> 10, s |-> ""]>>>> -> "gender_male_X_age_10"

ExpectedValueText(value) ==
  LET scalar == IF "doubleValue" \in DOMAIN value THEN value.doubleValue
                ELSE value.boundedValue.value
  IN CASE scalar.i = 5 -> "0.5"
       [] scalar.i = 12 -> "1.2"
       [] scalar.i = 30 -> "3.0"

RECURSIVE MetricsBeforeSlice(_, _)
\* The number of metrics of the slices before the i-th.
MetricsBeforeSlice(r, i) ==
  IF i <= 1 THEN 0 ELSE MetricsBeforeSlice(r, i - 1) + Len(r[i - 1].metrics)

\* C10: annotating a well-formed evaluation result succeeds and appends one
\* record per (slice, metric) pair, in encounter order, after what the card
\* held: N x M records for N slices of M metrics each; each record has the
\* metric name as type, the text of the direct scalar or of the bounded
\* value's 'value', and the slice label ('name_value' joined with '_X_', the
\* empty tuple giving '').
C10_AnnotatedRecords ==
  (Annotated /\ WellFormedEvalResult(annotation.eval_result)) =>
    LET r == annotation.eval_result
        before == annotation.before
        total == MetricsBeforeSlice(r, Len(r) + 1)
    IN /\ annotation.status = "ok"
       /\ Len(performance_metrics) = Len(before) + total
       /\ SubSeq(performance_metrics, 1, Len(before)) = before
       /\ \A m \in 0..2 :
            (\A i \in 1..Len(r) : Len(r[i].metrics) = m) => total = Len(r) * m
       /\ \A i \in 1..Len(r) : \A j \in 1..Len(r[i].metrics) :
            performance_metrics[Len(before) + MetricsBeforeSlice(r, i) + j] =
              [type |-> r[i].metrics[j].name,
               value |-> ExpectedValueText(r[i].metrics[j].value),
               slice |-> ExpectedSliceLabel(r[i].slice)]

C10_Witness ==
  /\ annotation.status = "ok"
  /\ WellFormedEvalResult(annotation.eval_result)
  /\ annotation.before # <<>>
  /\ Len(annotation.eval_result) = 2
  /\ \A i \in 1..2 : Len(annotation.eval_result[i].metrics) = 2
  /\ Len(performance_metrics) = 5
  /\ performance_metrics[2].slice = "gender_male_X_age_10"
  /\ performance_metrics[3].value = "1.2"
  /\ performance_metrics[5].slice = ""

-----------------------------------------------------------------------------
(* Reading the statistics payload of a statistics artifact.                *)

\* os.path.join of two components.
PathJoin(a, b) ==
  IF Len(b) > 0 /\ SubSeq(b, 1, 1) = "/" THEN b
  ELSE IF a = "" \/ SubSeq(a, Len(a), Len(a)) = "/" THEN a \o b
  ELSE a \o "/" \o b

\* os.path.exists
PathExists(files, path) == path \in DOMAIN files

\* stats.ParseFromString(serialized): the statistics list a serialized
\* payload holds.
ParseFromString(serialized) == [datasets |-> <<[name |-> serialized]>>]

\* Faulty variant: the record container is looked for first.
RecordsFirst_read_stats_proto(files, stats_artifact_uri, split) ==
  LET feature_stats_path ==
        PathJoin(PathJoin(stats_artifact_uri, split), "FeatureStats.pb")
      stats_tfrecord_path ==
        PathJoin(PathJoin(stats_artifact_uri, split), "stats_tfrecord")
  IN IF PathExists(files, stats_tfrecord_path)
     THEN IF files[stats_tfrecord_path] = <<>>
          THEN [status |-> "StopIteration", value |-> <<>>]
          ELSE [status |-> "ok",
                value |-> Some(ParseFromString(Head(files[stats_tfrecord_path])))]
     ELSE IF PathExists(files, feature_stats_path)
     THEN [status |-> "ok",
           value |-> Some(ParseFromString(files[feature_stats_path]))]
     ELSE [status |-> "ok", value |-> <<>>]

\* `files` is the file system: the paths that exist, each with its content
\* (the bytes of a file, the records of a record container).
read_stats_proto(files, stats_artifact_uri, split) ==
  LET feature_stats_path ==
        PathJoin(PathJoin(stats_artifact_uri, split), "FeatureStats.pb")
      stats_tfrecord_path ==
        PathJoin(PathJoin(stats_artifact_uri, split), "stats_tfrecord")
  IN IF PathExists(files, feature_stats_path)
     THEN [status |-> "ok",
           value |-> Some(ParseFromString(files[feature_stats_path]))]
     ELSE IF PathExists(files, stats_tfrecord_path)
     THEN \* next(tf_record_iterator(path)) of a container without records
          IF files[stats_tfrecord_path] = <<>>
          THEN [status |-> "StopIteration", value |-> <<>>]
          ELSE [status |-> "ok",
                value |-> Some(ParseFromString(Head(files[stats_tfrecord_path])))]
     ELSE [status |-> "ok", value |-> <<>>]

MaxRecords == 2         \* records of a record container

StatsUri == "/pipeline/StatisticsGen/statistics/4"
StatsUris == {StatsUri, StatsUri \o "/", "/does/not/exist/"}
StoredSplits == {"Split-train", "Split-eval"}
Splits == StoredSplits \cup {"invalid_split"}

RECURSIVE RecordSeqs(_)
\* The record containers of up to n records.
RecordSeqs(n) ==
  IF n = 0 THEN {<<>>}
  ELSE LET shorter == RecordSeqs(n - 1)
       IN shorter \cup {Append(r, "record_" \o ToString(Len(r) + 1)) :
                          r \in {q \in shorter : Len(q) = n - 1}}

\* The files a split directory of the statistics artifact may hold: none,
\* FeatureStats.pb, stats_tfrecord, or both.
SplitFiles(split) ==
  LET dir == PathJoin(StatsUri, split)
      pb == PathJoin(dir, "FeatureStats.pb")
      tfrecord == PathJoin(dir, "stats_tfrecord")
  IN {<<>>} \cup {pb :> ("pb_" \o split)}
       \cup {tfrecord :> r : r \in RecordSeqs(MaxRecords)}
       \cup {(pb :> ("pb_" \o split)) @@ (tfrecord :> r) : r \in RecordSeqs(MaxRecords)}

FileSystems == {a @@ b : a \in SplitFiles("Split-train"), b \in SplitFiles("Split-eval")}

InitRead == InitAnnotate

ReadStatsProto ==
  /\ Idle
  /\ \E files \in FileSystems, stats_artifact_uri \in StatsUris, split \in Splits :
       /\ call' = [op |-> "read_stats_proto", files |-> files,
                   stats_artifact_uri |-> stats_artifact_uri, split |-> split]
       /\ result' = read_stats_proto(files, stats_artifact_uri, split)
       /\ UNCHANGED <<storeVars, cardVars>>

NextRead == ReadStatsProto

SpecRead == InitRead /\ [][NextRead]_vars

-----------------------------------------------------------------------------
(* Reading a property of a node.                                           *)

\* metadata_store_pb2.Value() with no variant populated.
UnsetValue == [which |-> None, int_value |-> 0, double_value |-> 0, string_value |-> ""]

\* The values a property may hold: an integer, a double (in tenths), a text,
\* and a value with no variant populated.
PropertyValues == {IntValue(7), DoubleValue(3), StringValue("md5_a"), UnsetValue}
PropertyNames == {"module_file", "checksum_md5"}

\* The property maps: each name absent or holding a value.
PropertyMaps ==
  UNION {[names -> PropertyValues] : names \in SUBSET PropertyNames}

Nodes == [properties : PropertyMaps, custom_properties : PropertyMaps]

InitProperty == InitAnnotate

PropertyValue ==
  /\ Idle
  /\ \E node \in Nodes, name \in PropertyNames, is_custom_property \in BOOLEAN :
       /\ call' = [op |-> "_property_value", node |-> node, name |-> name,
                   is_custom_property |-> is_custom_property]
       /\ result' = [status |-> "ok",
                     value |-> _property_value(node, name, is_custom_property)]
       /\ UNCHANGED <<storeVars, cardVars>>

NextProperty == PropertyValue

SpecProperty == InitProperty /\ [][NextProperty]_vars

-----------------------------------------------------------------------------
(* One artifact walk on its own.                                           *)

\* Starting ids: none, each single artifact, several, and an id no artifact
\* of the store has.
StartingIds == {{}, {1}, {2}, {3}, {4}, {1, 2}, {2, 3, 4}, {0, 3}}

\* Type filters: none, the dataset type and the model type.
FilterTypes ==
  {<<>>, Some(ArtifactType(_TFX_DATASET_TYPE)), Some(ArtifactType(_TFX_MODEL_TYPE))}

InitWalk ==
  /\ InitPipelineStore
  /\ call = NoCall
  /\ result = NoResult
  /\ performance_metrics = <<>>
  /\ annotation = NoAnnotation

GetOneHopArtifacts ==
  /\ Idle
  /\ \E artifact_ids \in StartingIds, direction \in {ANCESTOR, SUCCESSOR},
        filter_type \in FilterTypes :
       /\ call' = [op |-> "_get_one_hop_artifacts", artifact_ids |-> artifact_ids,
                   direction |-> direction, filter_type |-> filter_type]
       /\ result' = [status |-> "ok",
                     artifacts |-> _get_one_hop_artifacts(artifact_ids, direction,
                                                          filter_type).value]
       /\ UNCHANGED <<storeVars, cardVars>>

NextWalk == GetOneHopArtifacts

SpecWalk == InitWalk /\ [][NextWalk]_vars

-----------------------------------------------------------------------------
(* C11, C12: failures of the metric annotator.                             *)

AnnotationFailed == Annotated /\ annotation.status # "ok"

\* The metric value carries the direct scalar.
HasDirectScalar(value) == "doubleValue" \in DOMAIN value

\* The metric value carries the bounded value with its 'value' sub-field.
HasBoundedValue(value) ==
  /\ "boundedValue" \in DOMAIN value
  /\ "value" \in DOMAIN value.boundedValue

SliceKeysOf(r) == {r[i].slice : i \in 1..Len(r)}
MetricValuesOf(r) ==
  UNION {{r[i].metrics[j].value : j \in 1..Len(r[i].metrics)} : i \in 1..Len(r)}

NotATuple(slice) == ~slice.is_tuple
NotOfPairs(slice) == slice.is_tuple /\ \E k \in 1..Len(slice.dims) : Len(slice.dims[k]) # 2
NotExactlyOne(value) == HasDirectScalar(value) = HasBoundedValue(value)
NeitherOne(value) == ~HasDirectScalar(value) /\ ~HasBoundedValue(value)
BothFields(value) == HasDirectScalar(value) /\ "boundedValue" \in DOMAIN value

\* C11 as stated: the annotation fails if and only if some slice key is not
\* a tuple or some metric value does not carry exactly one of the direct
\* scalar and the bounded value with its 'value'.
C11_FailsIffNotExactlyOne ==
  Annotated =>
    (annotation.status # "ok" <=>
       \/ (\E k \in SliceKeysOf(annotation.eval_result) : NotATuple(k))
       \/ (\E v \in MetricValuesOf(annotation.eval_result) : NotExactlyOne(v)))

\* C11, amended: the annotation fails if and only if some slice key is not a
\* tuple of pairs or some metric value carries neither the direct scalar nor
\* the bounded value with its 'value'; a value carrying both is read as its
\* direct scalar and does not fail.
C11_FailsIffUnreadable ==
  Annotated =>
    /\ annotation.status # "ok" <=>
         \/ (\E k \in SliceKeysOf(annotation.eval_result) : NotATuple(k))
         \/ (\E k \in SliceKeysOf(annotation.eval_result) : NotOfPairs(k))
         \/ (\E v \in MetricValuesOf(annotation.eval_result) : NeitherOne(v))
    /\ annotation.status = "ok" =>
         LET r == annotation.eval_result
         IN \A i \in 1..Len(r) : \A j \in 1..Len(r[i].metrics) :
              performance_metrics[Len(annotation.before)
                                  + MetricsBeforeSlice(r, i) + j].value =
                ExpectedValueText(r[i].metrics[j].value)

C11_Witness ==
  /\ annotation.status = "ValueError: Expected doubleValue or boundedValue"
  /\ Len(annotation.eval_result) = 2
  /\ ~(\E k \in SliceKeysOf(annotation.eval_result) : NotATuple(k))
  /\ ~(\E k \in SliceKeysOf(annotation.eval_result) : NotOfPairs(k))
  /\ ~(\E v \in MetricValuesOf(<<annotation.eval_result[1]>>) : NeitherOne(v))
  /\ (\E v \in MetricValuesOf(<<annotation.eval_result[1]>>) : BothFields(v))
  /\ (\E v \in MetricValuesOf(<<annotation.eval_result[2]>>) : NeitherOne(v))

\* C12 as stated: a failed annotation leaves the card's performance metrics
\* as they were before the call, and a failed model-keyed query returns no
\* artifact list and no model card.
C12_NoPartialResult ==
  /\ AnnotationFailed => performance_metrics = annotation.before
  /\ (Called /\ result.status # "ok") => (result.artifacts = <<>> /\ IsNone(result.card))

-----------------------------------------------------------------------------
(* C13: the statistics reader.                                             *)

FeatureStatsPathOfCall ==
  call.stats_artifact_uri \o
    (IF SubSeq(call.stats_artifact_uri, Len(call.stats_artifact_uri),
               Len(call.stats_artifact_uri)) = "/" THEN "" ELSE "/")
    \o call.split \o "/FeatureStats.pb"
StatsTfrecordPathOfCall ==
  call.stats_artifact_uri \o
    (IF SubSeq(call.stats_artifact_uri, Len(call.stats_artifact_uri),
               Len(call.stats_artifact_uri)) = "/" THEN "" ELSE "/")
    \o call.split \o "/stats_tfrecord"
FeatureStatsExists == FeatureStatsPathOfCall \in DOMAIN call.files
StatsTfrecordExists == StatsTfrecordPathOfCall \in DOMAIN call.files
ReturnedStats(name) ==
  result.status = "ok" /\ result.value = <<[datasets |-> <<[name |-> name]>>]>>
ReturnedNoValue == result.status = "ok" /\ result.value = <<>>

-----------------------------------------------------------------------------
(* C14: the queries leave the store alone and keep nothing between calls.  *)

\* What a call of a model-keyed query yields on the store as it is.
OutcomeOf(op, model_id, pipeline_types) ==
  CASE op = "get_metrics_artifacts_for_model" ->
         get_metrics_artifacts_for_model(model_id, pipeline_types)
    [] op = "get_stats_artifacts_for_model" ->
         get_stats_artifacts_for_model(model_id, pipeline_types)
    [] op = "generate_model_card_for_model" ->
         generate_model_card_for_model(model_id, pipeline_types)

-----------------------------------------------------------------------------
(* C15: the value of a property.                                           *)

\* The map the call selects.
SelectedProperties ==
  IF call.is_custom_property THEN call.node.custom_properties ELSE call.node.properties

\* C15 as stated: _property_value returns no value when the name is absent
\* from the selected map, and otherwise the integer, the double or the text
\* of the populated variant of the value stored there, whatever the other
\* map holds; it never raises.
C15_PopulatedVariant ==
  CalledOp("_property_value") =>
    /\ result.status = "ok"
    /\ call.name \notin DOMAIN SelectedProperties =>
         result.value = [kind |-> "NoneType", i |-> 0, s |-> ""]
    /\ call.name \in DOMAIN SelectedProperties =>
         LET stored == SelectedProperties[call.name]
         IN /\ stored.which = "int_value" =>
                 result.value = [kind |-> "int", i |-> stored.int_value, s |-> ""]
            /\ stored.which = "double_value" =>
                 result.value = [kind |-> "float", i |-> stored.double_value, s |-> ""]
            /\ stored.which = "string_value" =>
                 result.value = [kind |-> "str", i |-> 0, s |-> stored.string_value]

-----------------------------------------------------------------------------
(* C16, C17: one artifact walk.                                            *)

\* The artifacts a walk from S is to reach, before the type filter.
ReachedIds(S, direction) ==
  IF direction = "ANCESTOR" THEN AncestorIds(S) ELSE SuccessorIds(S)

\* C16: _get_one_hop_artifacts returns each artifact at most once, and
\* exactly the artifacts that share an execution with a starting id over a
\* first-hop event of the starting id and a second-hop event of the
\* artifact (OUTPUT/DECLARED_OUTPUT then INPUT/DECLARED_INPUT for ANCESTOR,
\* the other way round for SUCCESSOR), of the filter's type when a filter is
\* given; from no starting id it returns nothing.
C16_OneHop ==
  CalledOp("_get_one_hop_artifacts") =>
    /\ NoRepeat
    /\ \A i \in 1..Len(result.artifacts) : result.artifacts[i] = artifacts[result.artifacts[i].id]
    /\ ReturnedIds =
         IF IsNone(call.filter_type)
         THEN ReachedIds(call.artifact_ids, call.direction)
         ELSE OfType(ReachedIds(call.artifact_ids, call.direction), Get(call.filter_type))
    /\ call.artifact_ids = {} => result.artifacts = <<>>

C16_Witness ==
  /\ CalledOp("_get_one_hop_artifacts")
  /\ call.artifact_ids = {2, 3, 4}
  /\ call.direction = "SUCCESSOR"
  /\ ~IsNone(call.filter_type)
  /\ Len(result.artifacts) = 1
  /\ \E e \in EventExecutionIds :
       /\ Linked(2, e, {"INPUT"})
       /\ Linked(3, e, {"INPUT"})
       /\ Linked(1, e, {"OUTPUT"})
  /\ ReachedIds(call.artifact_ids, call.direction) # ReturnedIds

\* The ids of the artifacts the walk from one artifact returns, unfiltered.
WalkIds(a, direction) ==
  LET found == _get_one_hop_artifacts({a}, direction, <<>>).value
  IN {found[i].id : i \in 1..Len(found)}

\* C17: for artifacts a and b of the store, the unfiltered SUCCESSOR walk
\* from a returns b if and only if the unfiltered ANCESTOR walk from b
\* returns a.
C17_Converse ==
  (/\ CalledOp("_get_one_hop_artifacts")
   /\ IsNone(call.filter_type)
   /\ \E a \in DOMAIN artifacts : call.artifact_ids = {a}) =>
    LET a == CHOOSE a \in DOMAIN artifacts : call.artifact_ids = {a}
        opposite == IF call.direction = "SUCCESSOR" THEN "ANCESTOR" ELSE "SUCCESSOR"
    IN \A b \in DOMAIN artifacts :
         b \in ReturnedIds <=> a \in WalkIds(b, opposite)

C17_Witness ==
  /\ CalledOp("_get_one_hop_artifacts")
  /\ IsNone(call.filter_type)
  /\ call.artifact_ids = {2}
  /\ call.direction = "SUCCESSOR"
  /\ ReturnedIds = {1, 3}
  /\ 2 \in WalkIds(1, "ANCESTOR")
  /\ 2 \in WalkIds(3, "ANCESTOR")
  /\ 2 \notin WalkIds(4, "ANCESTOR")
  /\ WalkIds(2, "ANCESTOR") = {4}

====
